---- MODULE Spec2Model ----
(***************************************************************************)
(* Model of visualize.py: a linear script that loads battleship_results.csv *)
(* (pandas), partitions the rows by strategy label, computes per-strategy   *)
(* mean and population standard deviation (numpy), saves a bar chart and a  *)
(* box plot (matplotlib), runs three pairwise t-tests (scipy) and prints    *)
(* four console lines.                                                      *)
(*                                                                          *)
(* Numbers are exact: a finite float is a rational n/d or a signed square   *)
(* root of a rational; NaN and +/-inf are separate kinds, produced where    *)
(* IEEE arithmetic produces them (0/0, x/0).  The average_shots cells of    *)
(* the input are numeric, as the input format requires.                     *)
(***************************************************************************)
EXTENDS Integers, Sequences, FiniteSets

\* ---------------------------------------------------------------- bounds
MaxRows == 3
MaxRuns == 2

\* ------------------------------------------------------- program constants
strategies == <<"Random", "PDF", "Hunt and Target">>
InputPath == "battleship_results.csv"
BarPath == "strategy_comparison.png"
BoxPath == "strategy_distribution.png"
ImagePaths == {BarPath, BoxPath}
capsize == 5

\* ------------------------------------------------------------ input domain
OtherLabel == "Other"
ShotValues == {3, 5}
Cells ==
  [strategy : {strategies[1], strategies[2], strategies[3]}, average_shots : ShotValues]
    \cup {[strategy |-> OtherLabel, average_shots |-> 5]}

Row(s, v) == [strategy |-> s, average_shots |-> v]

\* The example table of the testable properties: Random 10, 12; PDF 5, 5;
\* Hunt and Target 3, 4.
ExampleRows ==
  << Row("Random", 10), Row("Random", 12), Row("PDF", 5), Row("PDF", 5),
     Row("Hunt and Target", 3), Row("Hunt and Target", 4) >>

\* Three samples with the same multiset of values, one in another order.
IdenticalRows ==
  << Row("Random", 3), Row("PDF", 3), Row("Hunt and Target", 5),
     Row("Random", 5), Row("PDF", 5), Row("Hunt and Target", 3) >>

TablesUpTo(k) == UNION {[1..n -> Cells] : n \in 0..k}

\* -------------------------------------------------------------- arithmetic
Abs(x) == IF x < 0 THEN -x ELSE x

RECURSIVE GCD(_, _)
GCD(a, b) == IF b = 0 THEN a ELSE GCD(b, a % b)

\* A float value: kind k is "nan", "inf" (n = +1/-1), "rat" (n/d) or "root"
\* (sign(n) * sqrt(|n|/d), irrational); df is used by p-values only.
Num(k, n, d) == [k |-> k, n |-> n, d |-> d, df |-> 0]
NaN == Num("nan", 0, 1)
Inf(sign) == Num("inf", sign, 1)
Rat(n, d) ==
  LET g == GCD(Abs(n), Abs(d))
      s == IF d < 0 THEN -1 ELSE 1
  IN  Num("rat", (s * n) \div g, (s * d) \div g)
Whole(n) == Rat(n, 1)

IsSquare(n) == \E i \in 0..n : i * i = n
ISqrt(n) == CHOOSE i \in 0..n : i * i = n

\* IEEE add / subtract / multiply / divide on the values above (rationals,
\* NaN propagating; x/0 is +/-inf and 0/0 is NaN).
FAdd(a, b) ==
  IF a.k # "rat" \/ b.k # "rat" THEN NaN ELSE Rat(a.n * b.d + b.n * a.d, a.d * b.d)
FSub(a, b) ==
  IF a.k # "rat" \/ b.k # "rat" THEN NaN ELSE Rat(a.n * b.d - b.n * a.d, a.d * b.d)
FMul(a, b) ==
  IF a.k # "rat" \/ b.k # "rat" THEN NaN ELSE Rat(a.n * b.n, a.d * b.d)
FDiv(a, b) ==
  IF a.k # "rat" \/ b.k # "rat" THEN NaN
  ELSE IF b.n = 0 THEN (IF a.n = 0 THEN NaN ELSE Inf(IF a.n < 0 THEN -1 ELSE 1))
  ELSE Rat(a.n * b.d, a.d * b.n)

\* sqrt of a non-negative rational.
FSqrt(a) ==
  IF a.k # "rat" THEN NaN
  ELSE IF IsSquare(a.n) /\ IsSquare(a.d) THEN Rat(ISqrt(a.n), ISqrt(a.d))
  ELSE Num("root", a.n, a.d)

RECURSIVE SumSeq(_)
SumSeq(s) == IF s = <<>> THEN 0 ELSE s[1] + SumSeq(Tail(s))

\* sum over the sample of |x - m|^2
RECURSIVE SumSqDev(_, _)
SumSqDev(s, m) ==
  IF s = <<>> THEN Whole(0)
  ELSE LET e == FSub(Whole(s[1]), m) IN FAdd(FMul(e, e), SumSqDev(Tail(s), m))

\* np.mean: sum / n; the empty sample gives 0/0 = NaN (a warning, no error).
Mean(s) == FDiv(Whole(SumSeq(s)), Whole(Len(s)))

\* variance with divisor max(n - ddof, 0)
Var(s, ddof) ==
  FDiv(SumSqDev(s, Mean(s)), Whole(IF Len(s) > ddof THEN Len(s) - ddof ELSE 0))

\* Variant: the sample-corrected standard deviation (ddof = 1).
Std_ddof1(s) == FSqrt(Var(s, 1))

\* np.std with the default ddof = 0: the population standard deviation.
Std(s) == FSqrt(Var(s, 0))

\* d / sqrt(q) for a rational d and a rational q >= 0 (NaN propagating).
DivBySqrt(d, q) ==
  IF d.k # "rat" \/ q.k # "rat" THEN NaN
  ELSE IF q.n = 0 \/ d.n = 0 THEN FDiv(d, q)
  ELSE LET m == FSqrt(FDiv(FMul(d, d), q))
       IN  [m EXCEPT !.n = IF d.n < 0 THEN -m.n ELSE m.n]

\* Variant: the one-sided p-value sf(|t|, df), which is 1/2 at t = 0.
PValue_onesided(t, df) ==
  IF t.k = "nan" THEN NaN
  ELSE IF t.k = "inf" THEN Whole(0)
  ELSE IF t.n = 0 THEN Rat(1, 2)
  ELSE LET sq == IF t.k = "rat" THEN Rat(t.n * t.n, t.d * t.d) ELSE Rat(Abs(t.n), t.d)
       IN  [k |-> "sf1", n |-> sq.n, d |-> sq.d, df |-> df]

\* Two-sided p-value 2 * sf(|t|, df) of Student's t distribution: 1 at t = 0,
\* 0 at +/-inf, NaN for NaN, otherwise a value strictly between, determined
\* by t^2 and df.
PValue(t, df) ==
  IF t.k = "nan" THEN NaN
  ELSE IF t.k = "inf" THEN Whole(0)
  ELSE IF t.n = 0 THEN Whole(1)
  ELSE LET sq == IF t.k = "rat" THEN Rat(t.n * t.n, t.d * t.d) ELSE Rat(Abs(t.n), t.d)
       IN  [k |-> "sf", n |-> sq.n, d |-> sq.d, df |-> df]

\* scipy.stats.ttest_ind(a, b): independent, equal_var = True, two-sided.
\* An empty sample gives (NaN, NaN); a one-element sample contributes zero
\* to the pooled variance.
ttest_ind(a, b) ==
  LET n1 == Len(a)
      n2 == Len(b)
      v1 == IF n1 = 1 THEN Whole(0) ELSE Var(a, 1)
      v2 == IF n2 = 1 THEN Whole(0) ELSE Var(b, 1)
      dof == n1 + n2 - 2
      svar == FDiv(FAdd(FMul(Whole(n1 - 1), v1), FMul(Whole(n2 - 1), v2)), Whole(dof))
      q == FMul(svar, FAdd(Rat(1, n1), Rat(1, n2)))
      t == DivBySqrt(FSub(Mean(a), Mean(b)), q)
  IN  IF n1 = 0 \/ n2 = 0 THEN [t |-> NaN, p |-> NaN]
      ELSE [t |-> t, p |-> PValue(t, dof)]

\* ------------------------------------------------------------ partitioning
\* df['strategy'] == label: the boolean mask over the rows.
Mask(rows, label) == [i \in 1..Len(rows) |-> rows[i].strategy = label]

\* Variant: the selected rows in reverse order.
RECURSIVE BoolIndex_rev(_, _)
BoolIndex_rev(rows, mask) ==
  IF rows = <<>> THEN <<>>
  ELSE BoolIndex_rev(Tail(rows), Tail(mask)) \o (IF mask[1] THEN <<rows[1]>> ELSE <<>>)

\* df[mask]: the rows whose mask entry is true, in order.
RECURSIVE BoolIndex(_, _)
BoolIndex(rows, mask) ==
  IF rows = <<>> THEN <<>>
  ELSE (IF mask[1] THEN <<rows[1]>> ELSE <<>>) \o BoolIndex(Tail(rows), Tail(mask))

\* [...]['average_shots'].values
Column(rows) == [i \in 1..Len(rows) |-> rows[i].average_shots]

SelectSample(rows, label) == Column(BoolIndex(rows, Mask(rows, label)))

\* --------------------------------------------------------------- formatting
\* f"{x:.4f}" and f"{x:.4e}": "nan" and "inf"/"-inf" for the non-finite
\* values; a finite value is rendered in the named notation, which is a
\* function of the value.
Format(x, notation) ==
  IF x.k = "nan" THEN [text |-> "nan", notation |-> "", v |-> NaN]
  ELSE IF x.k = "inf" THEN [text |-> IF x.n < 0 THEN "-inf" ELSE "inf", notation |-> "", v |-> NaN]
  ELSE [text |-> "", notation |-> notation, v |-> x]

NoText == [text |-> "", notation |-> "", v |-> NaN]
Header == [head |-> "T-test results:", t |-> NoText, p |-> NoText]
ResultLine(a, b, r) ==
  [head |-> a \o " vs " \o b, t |-> Format(r.t, ".4f"), p |-> Format(r.p, ".4e")]

\* ------------------------------------------------------------------- state
VARIABLES
  file,                 \* battleship_results.csv as found on disk
  images,               \* the two output files on disk
  images0,              \* the output files as they were when the run started
  handles,              \* paths with an open file handle
  opens,                \* <<path, mode>> of every handle opened in this run
  pc,                   \* line of the statement to execute next
  io,                   \* TRUE inside a statement that holds a file handle
  df,                   \* the loaded table
  random_results, pdf_results, hunt_target_results,
  means, stds,
  fig,                  \* pyplot's current figure
  t_random_pdf, t_random_hunt, t_pdf_hunt,   \* (t, p) of each test
  console,              \* lines printed in this run
  exit,                 \* process state: running, or exited with a status
  run,                  \* number of the current run
  prevConsole           \* console and exit of the previous run

vars ==
  << file, images, images0, handles, opens, pc, io, df, random_results, pdf_results,
     hunt_target_results, means, stds, fig, t_random_pdf, t_random_hunt, t_pdf_hunt,
     console, exit, run, prevConsole >>

\* The executable statements of the script, by line.
Lines == <<7, 10, 11, 12, 15, 16, 19, 20, 21, 22, 23, 24, 27, 28, 29, 30, 31, 32,
           35, 36, 37, 39, 40, 41, 42>>
EndOfScript == Lines[Len(Lines)] + 1
After(line) ==
  LET i == CHOOSE j \in 1..Len(Lines) : Lines[j] = line
  IN  IF i = Len(Lines) THEN EndOfScript ELSE Lines[i + 1]

\* ---------------------------------------------------------------- inputs
Columns == {"strategy", "average_shots"}
CsvFile(exists, parses, cols, rows) ==
  [exists |-> exists, parses |-> parses, cols |-> cols, rows |-> rows]

\* Input files: absent, unparsable, lacking a column, or well formed.
FilesUpTo(k) ==
  {CsvFile(FALSE, FALSE, {}, <<>>), CsvFile(TRUE, FALSE, {}, <<>>)}
    \cup {CsvFile(TRUE, TRUE, {c}, r) : c \in Columns, r \in TablesUpTo(1)}
    \cup {CsvFile(TRUE, TRUE, Columns, r) : r \in TablesUpTo(k) \cup {ExampleRows, IdenticalRows}}

NoFig ==
  [kind |-> "none", x |-> <<>>, heights |-> <<>>, yerr |-> <<>>, capsize |-> 0,
   data |-> <<>>, title |-> "", ylabel |-> ""]
Image(state, figure) == [state |-> state, fig |-> figure]
Absent == Image("absent", NoFig)
Stale == Image("stale", NoFig)

NoTable == [loaded |-> FALSE, cols |-> {}, rows |-> <<>>]
NoResult == [t |-> NaN, p |-> NaN]
Running == [done |-> FALSE, status |-> 0, error |-> ""]
Exited(status, error) == [done |-> TRUE, status |-> status, error |-> error]
NoRun == [console |-> <<>>, exit |-> Running]

\* The interpreter state at process start.
Fresh ==
  /\ handles = {} /\ opens = <<>> /\ io = FALSE
  /\ pc = Lines[1]
  /\ df = NoTable
  /\ random_results = <<>> /\ pdf_results = <<>> /\ hunt_target_results = <<>>
  /\ means = <<>> /\ stds = <<>>
  /\ fig = NoFig
  /\ t_random_pdf = NoResult /\ t_random_hunt = NoResult /\ t_pdf_hunt = NoResult
  /\ console = <<>>
  /\ exit = Running

InitWith(files) ==
  /\ file \in files
  /\ images \in [ImagePaths -> {Absent, Stale}]
  /\ images0 = images
  /\ run = 1
  /\ prevConsole = NoRun
  /\ Fresh

Init == InitWith(FilesUpTo(MaxRows))

\* ----------------------------------------------------------------- actions
At(line) == ~exit.done /\ pc = line /\ ~io

Env == << file, images0, run, prevConsole >>
Data == << df, random_results, pdf_results, hunt_target_results, means, stds >>
Tests == << t_random_pdf, t_random_hunt, t_pdf_hunt >>
Files == << images, handles, opens, io >>

\* An uncaught exception: the traceback goes to stderr, the process exits 1.
Raise(error) ==
  /\ exit' = Exited(1, error)
  /\ UNCHANGED << pc, console >>

Goto(line) == pc' = line /\ UNCHANGED exit

\* line 7, pd.read_csv: open the file for reading ...
ReadCsvOpen ==
  /\ At(7)
  /\ IF file.exists
       THEN /\ handles' = handles \cup {InputPath}
            /\ opens' = Append(opens, <<InputPath, "r">>)
            /\ io' = TRUE
            /\ UNCHANGED << pc, exit >>
       ELSE /\ Raise("FileNotFoundError")
            /\ UNCHANGED << handles, opens, io >>
  /\ UNCHANGED << Env, Data, Tests, images, fig, console >>

\* Variant: a parse error is caught and an empty table is used instead.
ReadCsvParse_caught ==
  /\ ~exit.done /\ pc = 7 /\ io
  /\ handles' = handles \ {InputPath}
  /\ io' = FALSE
  /\ df' = IF file.parses THEN [loaded |-> TRUE, cols |-> file.cols, rows |-> file.rows]
            ELSE [loaded |-> TRUE, cols |-> Columns, rows |-> <<>>]
  /\ Goto(After(7))
  /\ UNCHANGED << Env, Tests, images, opens, fig, console,
                  random_results, pdf_results, hunt_target_results, means, stds >>

\* Variant: the handle is not closed when parsing fails.
ReadCsvParse_leak ==
  /\ ~exit.done /\ pc = 7 /\ io
  /\ io' = FALSE
  /\ IF file.parses
       THEN /\ df' = [loaded |-> TRUE, cols |-> file.cols, rows |-> file.rows]
            /\ handles' = handles \ {InputPath}
            /\ Goto(After(7))
       ELSE /\ Raise("ParserError")
            /\ UNCHANGED << df, handles >>
  /\ UNCHANGED << Env, Tests, images, opens, fig, console,
                  random_results, pdf_results, hunt_target_results, means, stds >>

\* ... parse it, and close the handle whether or not parsing succeeds.
ReadCsvParse ==
  /\ ~exit.done /\ pc = 7 /\ io
  /\ handles' = handles \ {InputPath}
  /\ io' = FALSE
  /\ IF file.parses
       THEN /\ df' = [loaded |-> TRUE, cols |-> file.cols, rows |-> file.rows]
            /\ Goto(After(7))
       ELSE /\ Raise("ParserError")
            /\ UNCHANGED df
  /\ UNCHANGED << Env, Tests, images, opens, fig, console,
                  random_results, pdf_results, hunt_target_results, means, stds >>

\* Variant: a missing column is not detected.
Selectable_lazy == TRUE

\* df[df['strategy'] == label]['average_shots'].values
Selectable == Columns \subseteq df.cols

\* line 10
SelectRandom ==
  /\ At(10)
  /\ IF Selectable
       THEN /\ random_results' = SelectSample(df.rows, "Random")
            /\ Goto(After(10))
       ELSE /\ Raise("KeyError")
            /\ UNCHANGED random_results
  /\ UNCHANGED << Env, Tests, Files, fig, console, df, pdf_results,
                  hunt_target_results, means, stds >>

\* line 11
SelectPDF ==
  /\ At(11)
  /\ pdf_results' = SelectSample(df.rows, "PDF")
  /\ Goto(After(11))
  /\ UNCHANGED << Env, Tests, Files, fig, console, df, random_results,
                  hunt_target_results, means, stds >>

\* line 12
SelectHuntTarget ==
  /\ At(12)
  /\ hunt_target_results' = SelectSample(df.rows, "Hunt and Target")
  /\ Goto(After(12))
  /\ UNCHANGED << Env, Tests, Files, fig, console, df, random_results,
                  pdf_results, means, stds >>

\* Variant: an empty sample is rejected before the statistics.
ComputeMeans_checked ==
  /\ At(15)
  /\ IF <<>> \in {random_results, pdf_results, hunt_target_results}
       THEN /\ Raise("ValueError")
            /\ UNCHANGED means
       ELSE /\ means' = << Mean(random_results), Mean(pdf_results),
                           Mean(hunt_target_results) >>
            /\ Goto(After(15))
  /\ UNCHANGED << Env, Tests, Files, fig, console, df, random_results,
                  pdf_results, hunt_target_results, stds >>

\* line 15
ComputeMeans ==
  /\ At(15)
  /\ means' = << Mean(random_results), Mean(pdf_results), Mean(hunt_target_results) >>
  /\ Goto(After(15))
  /\ UNCHANGED << Env, Tests, Files, fig, console, df, random_results,
                  pdf_results, hunt_target_results, stds >>

\* line 16
ComputeStds ==
  /\ At(16)
  /\ stds' = << Std(random_results), Std(pdf_results), Std(hunt_target_results) >>
  /\ Goto(After(16))
  /\ UNCHANGED << Env, Tests, Files, fig, console, df, random_results,
                  pdf_results, hunt_target_results, means >>

Chart == << Env, Data, Tests, Files, console >>

\* lines 19 and 27, plt.figure: a new, empty current figure
Figure ==
  /\ At(19) \/ At(27)
  /\ fig' = [NoFig EXCEPT !.kind = "empty"]
  /\ Goto(After(pc))
  /\ UNCHANGED Chart

\* line 20, plt.bar(strategies, means, yerr=stds, capsize=5)
Bar ==
  /\ At(20)
  /\ fig' = [fig EXCEPT !.kind = "bar", !.x = strategies, !.heights = means,
                         !.yerr = stds, !.capsize = capsize]
  /\ Goto(After(20))
  /\ UNCHANGED Chart

\* line 28, plt.boxplot([random, pdf, hunt_target], labels=strategies)
Boxplot ==
  /\ At(28)
  /\ fig' = [fig EXCEPT !.kind = "box", !.x = strategies,
                         !.data = << random_results, pdf_results, hunt_target_results >>]
  /\ Goto(After(28))
  /\ UNCHANGED Chart

\* lines 21 and 29, plt.title
Title ==
  /\ At(21) \/ At(29)
  /\ fig' = [fig EXCEPT !.title = IF pc = 21 THEN "Average Shots to Win by Strategy"
                                  ELSE "Distribution of Shots to Win by Strategy"]
  /\ Goto(After(pc))
  /\ UNCHANGED Chart

\* lines 22 and 30, plt.ylabel
Ylabel ==
  /\ At(22) \/ At(30)
  /\ fig' = [fig EXCEPT !.ylabel = "Number of Shots"]
  /\ Goto(After(pc))
  /\ UNCHANGED Chart

SavePath(line) == IF line = 23 THEN BarPath ELSE BoxPath

\* Variant: exclusive creation, which fails when the file is there.
SavefigOpen_exclusive ==
  /\ At(23) \/ At(31)
  /\ IF images[SavePath(pc)].state = "absent"
       THEN /\ handles' = handles \cup {SavePath(pc)}
            /\ opens' = Append(opens, <<SavePath(pc), "w">>)
            /\ io' = TRUE
            /\ images' = [images EXCEPT ![SavePath(pc)] = Image("empty", NoFig)]
            /\ UNCHANGED << pc, exit >>
       ELSE /\ Raise("FileExistsError")
            /\ UNCHANGED << Files >>
  /\ UNCHANGED << Env, Data, Tests, fig, console >>

\* Variant: a file that is there is kept and the save is skipped.
SavefigOpen_skipExisting ==
  /\ At(23) \/ At(31)
  /\ IF images[SavePath(pc)].state = "absent"
       THEN /\ handles' = handles \cup {SavePath(pc)}
            /\ opens' = Append(opens, <<SavePath(pc), "w">>)
            /\ io' = TRUE
            /\ images' = [images EXCEPT ![SavePath(pc)] = Image("empty", NoFig)]
            /\ UNCHANGED << pc, exit >>
       ELSE /\ Goto(After(pc))
            /\ UNCHANGED << Files >>
  /\ UNCHANGED << Env, Data, Tests, fig, console >>

\* lines 23 and 31, plt.savefig: open the path for writing, which creates
\* the file or truncates the one that is there ...
SavefigOpen ==
  /\ At(23) \/ At(31)
  /\ handles' = handles \cup {SavePath(pc)}
  /\ opens' = Append(opens, <<SavePath(pc), "w">>)
  /\ io' = TRUE
  /\ images' = [images EXCEPT ![SavePath(pc)] = Image("empty", NoFig)]
  /\ UNCHANGED << Env, Data, Tests, fig, console, pc, exit >>

\* ... write the rendered figure and close the handle.
SavefigWrite ==
  /\ ~exit.done /\ pc \in {23, 31} /\ io
  /\ images' = [images EXCEPT ![SavePath(pc)] = Image("png", fig)]
  /\ handles' = handles \ {SavePath(pc)}
  /\ io' = FALSE
  /\ Goto(After(pc))
  /\ UNCHANGED << Env, Data, Tests, fig, console, opens >>

\* lines 24 and 32, plt.close
Close ==
  /\ At(24) \/ At(32)
  /\ fig' = NoFig
  /\ Goto(After(pc))
  /\ UNCHANGED Chart

\* line 35
TestRandomPDF ==
  /\ At(35)
  /\ t_random_pdf' = ttest_ind(random_results, pdf_results)
  /\ Goto(After(35))
  /\ UNCHANGED << Env, Data, Files, fig, console, t_random_hunt, t_pdf_hunt >>

\* line 36
TestRandomHunt ==
  /\ At(36)
  /\ t_random_hunt' = ttest_ind(random_results, hunt_target_results)
  /\ Goto(After(36))
  /\ UNCHANGED << Env, Data, Files, fig, console, t_random_pdf, t_pdf_hunt >>

\* line 37
TestPDFHunt ==
  /\ At(37)
  /\ t_pdf_hunt' = ttest_ind(pdf_results, hunt_target_results)
  /\ Goto(After(37))
  /\ UNCHANGED << Env, Data, Files, fig, console, t_random_pdf, t_random_hunt >>

\* Variant: the last two result lines in the other order.
Printed_swapped(line) ==
  CASE line = 39 -> Header
    [] line = 40 -> ResultLine("Random", "PDF", t_random_pdf)
    [] line = 41 -> ResultLine("PDF", "Hunt and Target", t_pdf_hunt)
    [] line = 42 -> ResultLine("Random", "Hunt and Target", t_random_hunt)

\* The line each print statement writes.
Printed(line) ==
  CASE line = 39 -> Header
    [] line = 40 -> ResultLine("Random", "PDF", t_random_pdf)
    [] line = 41 -> ResultLine("Random", "Hunt and Target", t_random_hunt)
    [] line = 42 -> ResultLine("PDF", "Hunt and Target", t_pdf_hunt)

\* lines 39 to 42, print
PrintLine ==
  /\ \E line \in {39, 40, 41, 42} : At(line)
  /\ console' = Append(console, Printed(pc))
  /\ Goto(After(pc))
  /\ UNCHANGED << Env, Data, Tests, Files, fig >>

\* The script ran off its last line: the process exits with status 0.
ProcessExit ==
  /\ At(EndOfScript)
  /\ exit' = Exited(0, "")
  /\ UNCHANGED << Env, Data, Tests, Files, fig, console, pc >>

\* The script is started again on the same input; only the disk persists.
Rerun ==
  /\ exit.done
  /\ run < MaxRuns
  /\ run' = run + 1
  /\ prevConsole' = [console |-> console, exit |-> exit]
  /\ images0' = images
  /\ handles' = {} /\ opens' = <<>> /\ io' = FALSE
  /\ pc' = Lines[1]
  /\ df' = NoTable
  /\ random_results' = <<>> /\ pdf_results' = <<>> /\ hunt_target_results' = <<>>
  /\ means' = <<>> /\ stds' = <<>>
  /\ fig' = NoFig
  /\ t_random_pdf' = NoResult /\ t_random_hunt' = NoResult /\ t_pdf_hunt' = NoResult
  /\ console' = <<>>
  /\ exit' = Running
  /\ UNCHANGED << file, images >>

Step ==
  \/ ReadCsvOpen \/ ReadCsvParse
  \/ SelectRandom \/ SelectPDF \/ SelectHuntTarget
  \/ ComputeMeans \/ ComputeStds
  \/ Figure \/ Bar \/ Boxplot \/ Title \/ Ylabel
  \/ SavefigOpen \/ SavefigWrite \/ Close
  \/ TestRandomPDF \/ TestRandomHunt \/ TestPDFHunt
  \/ PrintLine \/ ProcessExit

Next == Step

Spec == Init /\ [][Next]_vars

\* Repeated runs on the same input, on small tables.
MaxRerunRows == 2
InitRerun == InitWith(FilesUpTo(MaxRerunRows))
NextRerun == Step \/ Rerun
SpecRerun == InitRerun /\ [][NextRerun]_vars

\* ------------------------------------------------------------------ claims
Sample(i) ==
  CASE i = 1 -> random_results [] i = 2 -> pdf_results [] i = 3 -> hunt_target_results

LoadFails == ~file.exists \/ ~file.parses \/ ~(Columns \subseteq file.cols)
Succeeded == exit.done /\ exit.status = 0

\* C1: a run that reaches the printing stage prints the header first and
\* then one result line per pair, in the order (Random, PDF), (Random, Hunt
\* and Target), (PDF, Hunt and Target), each line carrying the t-test of the
\* two samples it names; a finished run has printed exactly these four lines.
C1_Expected ==
  << [head |-> "T-test results:", t |-> NoText, p |-> NoText],
     [head |-> "Random vs PDF",
      t |-> Format(ttest_ind(random_results, pdf_results).t, ".4f"),
      p |-> Format(ttest_ind(random_results, pdf_results).p, ".4e")],
     [head |-> "Random vs Hunt and Target",
      t |-> Format(ttest_ind(random_results, hunt_target_results).t, ".4f"),
      p |-> Format(ttest_ind(random_results, hunt_target_results).p, ".4e")],
     [head |-> "PDF vs Hunt and Target",
      t |-> Format(ttest_ind(pdf_results, hunt_target_results).t, ".4f"),
      p |-> Format(ttest_ind(pdf_results, hunt_target_results).p, ".4e")] >>

C1_ConsoleLines ==
  /\ pc >= 39 => console = SubSeq(C1_Expected, 1, pc - 39)
  /\ pc < 39 => console = <<>>
  /\ Succeeded => console = C1_Expected

C1_Witness ==
  /\ Succeeded
  /\ Len(console) = 4
  /\ console[2].t # console[3].t /\ console[3].t # console[4].t
  /\ console[2].t # console[4].t

\* C2: each sample is the sequence of average_shots values of the input rows
\* carrying its label, in input order with duplicates kept; a row with
\* another label is in no sample and no row is in two samples.
C2_Indices(label) == {i \in 1..Len(file.rows) : file.rows[i].strategy = label}

C2_IsSampleOf(sample, label) ==
  LET idx == C2_Indices(label)
  IN  /\ Len(sample) = Cardinality(idx)
      /\ \A i \in idx :
           sample[Cardinality({j \in idx : j <= i})] = file.rows[i].average_shots

C2_Partition ==
  pc >= 15 =>
    /\ \A i \in 1..3 : C2_IsSampleOf(Sample(i), strategies[i])
    /\ Len(random_results) + Len(pdf_results) + Len(hunt_target_results)
         = Cardinality({i \in 1..Len(file.rows) :
                          file.rows[i].strategy \in {"Random", "PDF", "Hunt and Target"}})

C2_Witness ==
  /\ pc >= 15
  /\ random_results = <<5, 3>>
  /\ \E i \in 1..Len(file.rows) : file.rows[i].strategy = OtherLabel

\* C3: for a non-empty sample the bar height is the arithmetic mean and the
\* error bar is the population standard deviation (divisor n); a one-row
\* sample has its value as mean and deviation zero; the example table has
\* means 11, 5, 3.5 and deviations 1, 0, 0.5.
C3_Square(x) == IF x.k = "rat" THEN Rat(x.n * x.n, x.d * x.d) ELSE Rat(Abs(x.n), x.d)

RECURSIVE C3_SumOfSquares(_)
C3_SumOfSquares(s) == IF s = <<>> THEN 0 ELSE s[1] * s[1] + C3_SumOfSquares(Tail(s))

C3_IsMean(m, s) == m.k = "rat" /\ m.n * Len(s) = SumSeq(s) * m.d

\* sd >= 0 and n^2 * sd^2 = n * sum(x^2) - (sum x)^2
C3_IsPopulationStd(sd, s) ==
  /\ sd.k \in {"rat", "root"} /\ sd.n >= 0
  /\ C3_Square(sd).n * Len(s) * Len(s)
       = C3_Square(sd).d * (Len(s) * C3_SumOfSquares(s) - SumSeq(s) * SumSeq(s))

C3_BarStatistics ==
  pc >= 24 =>
    LET bar == images[BarPath].fig
    IN  /\ \A i \in 1..3 :
             /\ Len(Sample(i)) > 0 =>
                  /\ C3_IsMean(bar.heights[i], Sample(i))
                  /\ C3_IsPopulationStd(bar.yerr[i], Sample(i))
             /\ Len(Sample(i)) = 1 =>
                  /\ bar.heights[i] = Whole(Sample(i)[1])
                  /\ bar.yerr[i] = Whole(0)
        /\ file.rows = ExampleRows =>
             /\ bar.heights = << Whole(11), Whole(5), Rat(7, 2) >>
             /\ bar.yerr = << Whole(1), Whole(0), Rat(1, 2) >>

C3_Witness ==
  /\ pc >= 24
  /\ file.rows = ExampleRows
  /\ images[BarPath].fig.yerr[3] = Rat(1, 2)

\* C4: when a label never occurs in a well-formed table, its sample is
\* empty, its mean and standard deviation are NaN, and the run neither stops
\* nor fails: it goes on to print the four lines and exits with status 0.
C4_MissingLabel(i) ==
  /\ ~LoadFails
  /\ \A j \in 1..Len(file.rows) : file.rows[j].strategy # strategies[i]

C4_MissingLabelRuns ==
  \A i \in 1..3 :
    C4_MissingLabel(i) =>
      /\ pc >= 15 => Sample(i) = <<>>
      /\ pc > 15 => means[i] = NaN
      /\ pc > 16 => stds[i] = NaN
      /\ pc > 31 => \A f \in ImagePaths : images[f].state = "png"
      /\ pc > 40 /\ i \in {1, 2} => console[2].t.text = "nan" /\ console[2].p.text = "nan"
      /\ exit.done => exit.status = 0 /\ pc = EndOfScript /\ Len(console) = 4

C4_Witness ==
  /\ C4_MissingLabel(2)
  /\ Len(random_results) = 2 /\ Len(hunt_target_results) = 1
  /\ Succeeded
  /\ means[2] = NaN /\ stds[2] = NaN
  /\ console[2].t.text = "nan"

\* C5 (as stated): every failure, an empty sample included, ends the process
\* with a non-zero exit status.
C5_Original ==
  exit.done /\ (LoadFails \/ \E i \in 1..3 : Sample(i) = <<>>) => exit.status # 0

\* C5 (amended): a missing file, a malformed CSV or a missing column ends the
\* process with a non-zero status at the statement that failed, with nothing
\* executed after it; an empty sample is no failure and the run exits 0.
C5_UncaughtErrors ==
  /\ exit.done =>
       /\ exit.status # 0 <=> LoadFails
       /\ exit.status \in {0, 1}
       /\ ~file.exists => exit.error = "FileNotFoundError" /\ pc = 7
       /\ file.exists /\ ~file.parses => exit.error = "ParserError" /\ pc = 7
       /\ file.exists /\ file.parses /\ LoadFails => exit.error = "KeyError" /\ pc = 10
       /\ ~LoadFails => pc = EndOfScript
  /\ LoadFails => pc <= 10 /\ means = <<>> /\ console = <<>>

C5_Witness ==
  /\ exit.done /\ exit.status = 1 /\ exit.error = "ParserError"
  /\ ~df.loaded

\* C6 (as stated): the t-test of two non-empty samples with the same multiset
\* of values gives t = 0 and p = 1, constant and one-element samples included.
C6_SameMultiset(a, b) ==
  /\ Len(a) = Len(b)
  /\ \A v \in {a[i] : i \in 1..Len(a)} \cup {b[i] : i \in 1..Len(b)} :
       Cardinality({i \in 1..Len(a) : a[i] = v}) = Cardinality({i \in 1..Len(b) : b[i] = v})

C6_Constant(a) == \A i \in 1..Len(a) : a[i] = a[1]

C6_Pairs ==
  { << random_results, pdf_results, t_random_pdf >>,
    << random_results, hunt_target_results, t_random_hunt >>,
    << pdf_results, hunt_target_results, t_pdf_hunt >> }

C7_Deterministic ==
  run > 1 /\ exit.done => console = prevConsole.console /\ exit = prevConsole.exit

C7_Witness ==
  /\ run = 2 /\ Succeeded
  /\ Len(console) = 4
  /\ images0[BarPath].state = "png" /\ images0[BoxPath].state = "png"
  /\ console[2].t.text = ""

\* C8: once load and partition have succeeded both images are written, each
\* replacing whatever was at its path; the bar chart is written before the
\* box plot and both before the first console line.
C8_ImagesWritten ==
  /\ pc > 23 =>
       /\ images[BarPath].state = "png" /\ images[BarPath].fig.kind = "bar"
       /\ images[BarPath].fig.heights = means
  /\ pc > 31 =>
       /\ images[BoxPath].state = "png" /\ images[BoxPath].fig.kind = "box"
       /\ images[BoxPath].fig.data
            = << random_results, pdf_results, hunt_target_results >>
  /\ images[BoxPath] # images0[BoxPath] =>
       images[BarPath].state = "png" /\ BarPath \notin handles
  /\ console # <<>> => \A f \in ImagePaths : images[f].state = "png"
  /\ exit.done /\ ~LoadFails => \A f \in ImagePaths : images[f].state = "png"
  /\ pc >= 35 => opens = << <<InputPath, "r">>, <<BarPath, "w">>, <<BoxPath, "w">> >>

C8_Witness ==
  /\ Succeeded
  /\ images0 = [f \in ImagePaths |-> Stale]
  /\ \A f \in ImagePaths : images[f].state = "png"

\* C9: when the load stage fails (file missing, unparsable, or lacking a
\* column) the run changes neither output file and prints nothing, and it
\* ends at the failing statement with a non-zero status.
C9_NoSideEffects ==
  LoadFails =>
    /\ images = images0
    /\ console = <<>>
    /\ \A i \in 1..Len(opens) : opens[i] = <<InputPath, "r">>
    /\ pc <= 10
    /\ exit.done => exit.status # 0

C9_Witness ==
  /\ exit.done /\ exit.status = 1 /\ exit.error = "KeyError"
  /\ images0[BarPath] = Stale /\ images0[BoxPath] = Absent
  /\ images = images0

\* C10 (as stated): every run opens exactly one input file handle.
C10_InputOpens == Cardinality({i \in 1..Len(opens) : opens[i][1] = InputPath})
C10_OutputOpens == Cardinality({i \in 1..Len(opens) : opens[i][1] \in ImagePaths})

C10_Original == exit.done => C10_InputOpens = 1

\* C10 (amended): a run opens at most one input file handle (exactly one
\* unless the input file is missing) and at most two output handles, each
\* opened and released within one statement: no handle is open between
\* statements, at most one at any time, the input is opened for reading
\* only and never changes, and the table and the samples do not change once
\* built.
C10_HandleState ==
  /\ Cardinality(handles) <= 1
  /\ ~io => handles = {}
  /\ io => handles = {IF pc = 7 THEN InputPath ELSE SavePath(pc)}
  /\ exit.done => handles = {}
  /\ C10_InputOpens <= 1 /\ C10_OutputOpens <= 2
  /\ C10_InputOpens = 1 <=> file.exists /\ (pc > 7 \/ io \/ exit.done)
  /\ \A i \in 1..Len(opens) : opens[i][1] = InputPath => opens[i][2] = "r"

C10_Frame ==
  /\ file' = file
  /\ df.loaded => df' = df
  /\ pc >= 15 =>
       << random_results, pdf_results, hunt_target_results >>'
         = << random_results, pdf_results, hunt_target_results >>

C10_Handles == []C10_HandleState /\ [][C10_Frame]_vars

C10_Witness ==
  /\ Succeeded
  /\ C10_InputOpens = 1 /\ C10_OutputOpens = 2
  /\ handles = {}

====
